---- MODULE Spec2Model ----
(***************************************************************************)
(* Model of the cache orchestration engine of arc-detection-segments:      *)
(* src/cache/manager.py (CacheConfiguration, CacheStatus,                  *)
(* FileSequenceManager, CacheManager) and the configuration endpoints of   *)
(* src/cache/config_server.py.                                             *)
(*                                                                         *)
(* CacheStatus.lock is a threading.Lock, which is not reentrant.  Every    *)
(* mutating method of CacheStatus takes it with `with self.lock:` and,     *)
(* still inside that block, calls save_status(), whose own                 *)
(* `with self.lock:` waits for the lock its caller holds.  The model keeps *)
(* that: a thread that has mutated the document stands at "persist",       *)
(* holding the lock, and save_status is enabled only while the lock is     *)
(* free.                                                                   *)
(***************************************************************************)
EXTENDS Integers, Sequences, FiniteSets, TLC

(* ------------------------------ bounds -------------------------------- *)
\* request threads calling into the cache manager at the same time
NThreads == 2
\* item (file) ids are 1..MaxId
MaxId == 3
\* window widths Nr, Nf tried for get_cache_targets are 0..MaxWin
MaxWin == 3
\* each statistics counter is followed up to this value
MaxCount == 2
\* calls made on the configuration surface, one after another
MaxCalls == 2
\* window requests made while triggers are under way
MaxUpdates == 1

Threads == 1..NThreads
Items == 1..MaxId

VARIABLES
    lock,         \* CacheStatus.lock: Free, or the thread that holds it
    status,       \* CacheStatus.status, the in-memory ledger document
    status_file,  \* cache_status.json on disk
    config,       \* CacheConfiguration.config (the options the manager reads)
    running,      \* CacheManager.running
    pool,         \* CacheManager.executor
    seg_file,     \* segments_<id>.json under SEGMENTS_CACHE_DIR, per item
    plot_file,    \* plots_meta_<id>.json under PLOTS_CACHE_DIR, per item
    pc,           \* per thread: where it stands in the call it is making
    loc,          \* per thread: the locals of the call it is making
    oracle,       \* the last get_cache_targets call made on its own: inputs and result
    disk,         \* the cache directories as cleanup_cache sees them, and the clock
    conf,         \* CacheConfiguration.config as a nested document, cache_config.json,
                  \* and the last call made on the configuration
    cache_manager \* the module's global cache_manager, and the instances made

vars == <<lock, status, status_file, config, running, pool, seg_file, plot_file,
          pc, loc, oracle, disk, conf, cache_manager>>

(* ------------------------------ values -------------------------------- *)
\* threading.Lock(): unlocked
Free == 0
\* Python's None as a file id
None == 0
\* the cache types, in the order the manager walks them
CacheTypes == <<"segments", "plots", "verification">>
TypeSet == {CacheTypes[k] : k \in 1..Len(CacheTypes)}

Max(a, b) == IF a >= b THEN a ELSE b
Min(a, b) == IF a <= b THEN a ELSE b

\* A dict key of the ledger maps.  A key the running process inserts is the
\* int file id; json writes every key as a string and json.load gives it
\* back as a string, so a key read from cache_status.json is a str.
IntKey(i) == <<"int", i>>
StrKey(i) == <<"str", i>>
\* the item a key stands for
ItemOf(k) == k[2]

\* json.dump followed by json.load of a ledger map: every key comes back a str
JsonKeys(m) == {<<StrKey(ItemOf(e[1])), e[2]>> : e \in m}

(* A ledger map (completed, failed, in_progress) is the set of its         *)
(* <<key, cache type>> entries; the timestamps and texts stored with an    *)
(* entry are left out.  generation_time_avg is kept exactly, as the        *)
(* fraction <<numerator, denominator>>.                                    *)
DefaultStatus ==
    [current_file_id |-> None,
     generation_queue |-> <<>>,
     completed |-> {},
     failed |-> {},
     in_progress |-> {},
     total_generated |-> 0,
     cache_hits |-> 0,
     cache_misses |-> 0,
     generation_time_avg |-> <<0, 1>>]

NoFile == [exists |-> FALSE, corrupt |-> FALSE, doc |-> DefaultStatus]

\* json.dump(self.status) read back by json.load: what a file written from
\* document s holds
Dumped(s) ==
    [s EXCEPT !.completed = JsonKeys(@),
              !.failed = JsonKeys(@),
              !.in_progress = JsonKeys(@)]

\* CacheStatus.__init__ followed by _load_status: the defaults, replaced by
\* the file's document when the file exists and parses
LoadStatus(f) ==
    IF f.exists /\ ~f.corrupt THEN f.doc ELSE DefaultStatus

RECURSIVE Gcd(_, _)
Gcd(a, b) == IF b = 0 THEN a ELSE Gcd(b, a % b)
\* the fraction p/q in lowest terms (q > 0, p >= 0)
Frac(p, q) == LET g == Gcd(p, q) IN IF g = 0 THEN <<0, 1>> ELSE <<p \div g, q \div g>>

(* -------------------- CacheStatus: the document ----------------------- *)
\* is_cached(file_id, cache_type): reads the document without the lock
is_cached(s, i, ty) == <<IntKey(i), ty>> \in s.completed

\* the body of update_current_file, emptying the queue as well
SetCurrent_emptying_queue(s, i) ==
    [s EXCEPT !.current_file_id = i, !.generation_queue = <<>>]

\* the body of update_current_file under the lock
SetCurrent(s, i) == [s EXCEPT !.current_file_id = i]

RECURSIVE NotIn(_, _)
\* [fid for fid in file_ids if fid not in current_queue]
NotIn(file_ids, current_queue) ==
    IF file_ids = <<>> THEN <<>>
    ELSE LET rest == NotIn(Tail(file_ids), current_queue)
         IN IF Head(file_ids) \in current_queue THEN rest
            ELSE <<Head(file_ids)>> \o rest

\* the body of add_to_queue under the lock
Enqueued(s, file_ids) ==
    LET current_queue == {s.generation_queue[k] : k \in 1..Len(s.generation_queue)}
    IN [s EXCEPT !.generation_queue = @ \o NotIn(file_ids, current_queue)]

\* the body of mark_in_progress under the lock
InProgressMarked(s, i, ty) ==
    [s EXCEPT !.in_progress = @ \cup {<<IntKey(i), ty>>}]

\* "Remove from in_progress" of mark_completed and mark_failed: the entry
\* under the int key file_id
Cleared(m, i, ty) == m \ {<<IntKey(i), ty>>}

\* the body of mark_completed, the old average weighted with the new total
CompletedMarked_weighted_by_total(s, i, ty, generation_time) ==
    LET total == s.total_generated + 1
        avg == s.generation_time_avg
    IN [s EXCEPT !.in_progress = Cleared(@, i, ty),
                 !.completed = @ \cup {<<IntKey(i), ty>>},
                 !.total_generated = total,
                 !.generation_time_avg =
                     Frac(avg[1] * total + generation_time * avg[2],
                          avg[2] * total)]

\* the body of mark_completed under the lock
CompletedMarked(s, i, ty, generation_time) ==
    LET total == s.total_generated + 1
        avg == s.generation_time_avg
    IN [s EXCEPT !.in_progress = Cleared(@, i, ty),
                 !.completed = @ \cup {<<IntKey(i), ty>>},
                 !.total_generated = total,
                 !.generation_time_avg =
                     Frac(avg[1] * (total - 1) + generation_time * avg[2],
                          avg[2] * total)]

\* the body of mark_failed, the failed map holding the new record only
FailedMarked_keeping_only_new(s, i, ty) ==
    [s EXCEPT !.in_progress = Cleared(@, i, ty),
              !.failed = {<<IntKey(i), ty>>}]

\* the body of mark_failed under the lock
FailedMarked(s, i, ty) ==
    [s EXCEPT !.in_progress = Cleared(@, i, ty),
              !.failed = @ \cup {<<IntKey(i), ty>>}]

(* ------------------- FileSequenceManager ------------------------------ *)
\* file_sequence.index(x): 0-based position of the first x
RECURSIVE IndexOf(_, _)
IndexOf(seq, x) == IF Head(seq) = x THEN 0 ELSE 1 + IndexOf(Tail(seq), x)

\* Python's seq[a:b]: a negative bound counts from the end, both are clamped
PySlice(seq, a, b) ==
    LET n == Len(seq)
        lo == IF a < 0 THEN Max(0, a + n) ELSE Min(a, n)
        hi == IF b < 0 THEN Max(0, b + n) ELSE Min(b, n)
    IN IF lo >= hi THEN <<>> ELSE SubSeq(seq, lo + 1, hi)

\* get_cache_targets with the end of the slice taken without the "+ 1" that
\* includes the current file
get_cache_targets_end_excluded(file_sequence, current_file_id, Nr, Nf) ==
    IF current_file_id \notin {file_sequence[k] : k \in 1..Len(file_sequence)}
    THEN <<>>
    ELSE LET current_index == IndexOf(file_sequence, current_file_id)
             start_index == Max(0, current_index - Nr)
             end_index == Min(Len(file_sequence), current_index + Nf)
         IN PySlice(file_sequence, start_index, end_index)

\* get_cache_targets(current_file_id, Nr, Nf) on the sequence file_sequence
\* that get_file_sequence() returned
get_cache_targets(file_sequence, current_file_id, Nr, Nf) ==
    IF current_file_id \notin {file_sequence[k] : k \in 1..Len(file_sequence)}
    THEN <<>>
    ELSE LET current_index == IndexOf(file_sequence, current_file_id)
             start_index == Max(0, current_index - Nr)
             end_index == Min(Len(file_sequence), current_index + Nf + 1)
         IN PySlice(file_sequence, start_index, end_index)

\* get_next_file with the sequence taken as a ring
get_next_file_wrapping_around(file_sequence, current_file_id) ==
    IF current_file_id \in {file_sequence[k] : k \in 1..Len(file_sequence)}
    THEN LET current_index == IndexOf(file_sequence, current_file_id)
         IN file_sequence[((current_index + 1) % Len(file_sequence)) + 1]
    ELSE None

\* get_next_file(current_file_id) on the sequence file_sequence that
\* get_file_sequence() returned; positions count from 0 as in the code
get_next_file(file_sequence, current_file_id) ==
    IF current_file_id \in {file_sequence[k] : k \in 1..Len(file_sequence)}
    THEN LET current_index == IndexOf(file_sequence, current_file_id)
         IN IF current_index + 1 < Len(file_sequence)
            THEN file_sequence[(current_index + 1) + 1]
            ELSE None
    ELSE None

\* get_previous_file(current_file_id), likewise
get_previous_file(file_sequence, current_file_id) ==
    IF current_file_id \in {file_sequence[k] : k \in 1..Len(file_sequence)}
    THEN LET current_index == IndexOf(file_sequence, current_file_id)
         IN IF current_index > 0
            THEN file_sequence[(current_index - 1) + 1]
            ELSE None
    ELSE None

RECURSIVE Ascending(_, _)
\* the ascending sequence of the ids of set S that are at least lo
Ascending(S, lo) ==
    IF \A x \in S : x < lo THEN <<>>
    ELSE LET m == CHOOSE x \in S : x >= lo /\ \A y \in S : y >= lo => x <= y
         IN <<m>> \o Ascending(S, m + 1)

\* what get_file_sequence() can return: the file ids of the store in
\* ascending order (SELECT file_id ... ORDER BY file_id), or [] when the
\* store cannot be read
FileSequences == {Ascending(S, 1) : S \in SUBSET Items}

(* ---------------------- CacheManager: the filter ---------------------- *)
\* config.get('cache_types.<ty>', True)
TypeEnabled(c, ty) == c.cache_types[ty]

\* needs_generation of _trigger_background_generation for one target
needs_generation(c, s, file_id) ==
    \E k \in 1..Len(CacheTypes) :
        TypeEnabled(c, CacheTypes[k]) /\ ~is_cached(s, file_id, CacheTypes[k])

RECURSIVE targets_to_generate(_, _, _)
\* the targets of cache_targets that need generation, in order
targets_to_generate(c, s, cache_targets) ==
    IF cache_targets = <<>> THEN <<>>
    ELSE LET rest == targets_to_generate(c, s, Tail(cache_targets))
         IN IF needs_generation(c, s, Head(cache_targets))
            THEN <<Head(cache_targets)>> \o rest
            ELSE rest

(* ----------------------- CacheConfiguration ---------------------------- *)
\* A JSON value of the configuration document: a mapping from keys to
\* values, or a leaf.  A boolean leaf holds 0 or 1 and a float leaf holds
\* its value in tenths; a string leaf stands for any text that is no number.
Leaf(kind, value) == [kind |-> kind, value |-> value, items |-> <<>>]
Dict(items) == [kind |-> "dict", value |-> 0, items |-> items]
IsDict(value) == value.kind = "dict"

\* default[key] = value
Put(default, key, value) ==
    Dict([k \in DOMAIN default.items \cup {key} |->
             IF k = key THEN value ELSE default.items[k]])

_load_default_config ==
    Dict([cache_window |->
              Dict([Nr |-> Leaf("int", 3), Nf |-> Leaf("int", 10)]),
          cache_types |->
              Dict([segments |-> Leaf("bool", 1),
                    plots |-> Leaf("bool", 1),
                    verification |-> Leaf("bool", 1),
                    transient_plots |-> Leaf("bool", 0)]),
          cache_limits |->
              Dict([max_cache_size_gb |-> Leaf("float", 50),
                    max_cache_age_hours |-> Leaf("int", 24),
                    cleanup_threshold |-> Leaf("float", 8)]),
          performance |->
              Dict([max_workers |-> Leaf("int", 4),
                    segment_generation_timeout |-> Leaf("int", 30),
                    plot_generation_timeout |-> Leaf("int", 60)]),
          auto_cleanup |-> Leaf("bool", 1),
          enable_background_generation |-> Leaf("bool", 1)])

\* the one-pass merge that stops at the top-level keys
_deep_merge_top_level_only(default, override) ==
    Dict([k \in DOMAIN default.items \cup DOMAIN override.items |->
             IF k \in DOMAIN override.items THEN override.items[k]
             ELSE default.items[k]])

\* _deep_merge(default, override), both mappings: what default holds afterwards
RECURSIVE _deep_merge(_, _)
_deep_merge(default, override) ==
    Dict([key \in DOMAIN default.items \cup DOMAIN override.items |->
             IF key \notin DOMAIN override.items THEN default.items[key]
             ELSE IF /\ key \in DOMAIN default.items
                     /\ IsDict(default.items[key])
                     /\ IsDict(override.items[key])
                  THEN _deep_merge(default.items[key], override.items[key])
                  ELSE override.items[key]])

\* cache_config.json: whether it exists, whether it parses, the JSON value it
\* holds, and whether open(config_file, 'w') succeeds
NoConfigFile ==
    [exists |-> FALSE, corrupt |-> FALSE, doc |-> Dict(<<>>), writable |-> TRUE]

\* _load_config() on the defaults: override.items() raises on a document
\* that is no mapping, and so does json.load on a file that does not parse;
\* both are caught and the defaults stay
_load_config(tree, config_file) ==
    IF /\ config_file.exists
       /\ ~config_file.corrupt
       /\ IsDict(config_file.doc)
    THEN _deep_merge(tree, config_file.doc)
    ELSE tree

\* save_config(): json.dump of the whole tree; an exception is logged only
save_config(tree, config_file) ==
    IF config_file.writable
    THEN [config_file EXCEPT !.exists = TRUE, !.corrupt = FALSE, !.doc = tree]
    ELSE config_file

\* key_path.split('.'): key_path is given piece by piece, "." between pieces
FirstDot(key_path) ==
    IF \E i \in 1..Len(key_path) : key_path[i] = "."
    THEN CHOOSE i \in 1..Len(key_path) :
             /\ key_path[i] = "."
             /\ \A j \in 1..(i - 1) : key_path[j] # "."
    ELSE 0

RECURSIVE split(_)
split(key_path) ==
    LET i == FirstDot(key_path)
        piece(s) == IF s = <<>> THEN "" ELSE s[1]
    IN IF i = 0 THEN <<piece(key_path)>>
       ELSE <<piece(SubSeq(key_path, 1, i - 1))>>
            \o split(SubSeq(key_path, i + 1, Len(key_path)))

\* get(key_path, default) after the split, from value on
RECURSIVE get(_, _, _)
get(value, keys, default) ==
    IF keys = <<>> THEN value
    ELSE IF IsDict(value) /\ Head(keys) \in DOMAIN value.items
         THEN get(value.items[Head(keys)], Tail(keys), default)
         ELSE default

\* set(key_path, value) after the split, from config on, up to save_config.
\* On a value that is no mapping `key not in config`, or the item
\* assignment, raises TypeError; a mapping is made only where the key was
\* missing, so nothing has been changed when that happens.
RECURSIVE set(_, _, _)
set(tree, keys, value) ==
    IF ~IsDict(tree) THEN [raised |-> TRUE, config |-> tree]
    ELSE IF Len(keys) = 1
         THEN [raised |-> FALSE, config |-> Put(tree, keys[1], value)]
         ELSE LET key == Head(keys)
                  below == IF key \in DOMAIN tree.items THEN tree.items[key]
                           ELSE Dict(<<>>)
                  r == set(below, Tail(keys), value)
              IN IF r.raised THEN [raised |-> TRUE, config |-> tree]
                 ELSE [raised |-> FALSE, config |-> Put(tree, key, r.config)]

\* get_cache_window()
get_cache_window(tree) ==
    <<get(tree, split(<<"cache_window", ".", "Nr">>), Leaf("int", 3)),
      get(tree, split(<<"cache_window", ".", "Nf">>), Leaf("int", 10))>>

\* CacheConfiguration(): the defaults, then _load_config(); no call made yet.
\* windows keeps the windows get_cache_window has had to give so far: the
\* one loaded, and the one stored at the end of each call that sets values.
CacheConfiguration(config_file) ==
    [config |-> _load_config(_load_default_config, config_file),
     config_file |-> config_file,
     windows |-> {get_cache_window(_load_config(_load_default_config, config_file))},
     calls |-> 0,
     op |-> "__init__",
     key_path |-> <<>>,
     data |-> <<>>,
     value |-> Leaf("int", 0),
     default |-> Leaf("int", 0),
     result |-> Leaf("int", 0),
     raised |-> FALSE,
     success |-> TRUE]

(* ------------------------- initial states ----------------------------- *)
\* the locals of a thread that is making no call
NoCall ==
    [op |-> "none", file_id |-> None, window |-> <<>>, targets |-> <<>>,
     Nr |-> 0, Nf |-> 0, tmp |-> 0, hits_added |-> 0, misses_added |-> 0,
     result |-> "none", opened |-> "none", cutoff_time |-> 0, dir |-> 0,
     listing |-> <<>>]

\* _load_default_config, as far as the manager reads it
DefaultConfig ==
    [cache_window |-> [Nr |-> 3, Nf |-> 10],
     cache_types |-> [segments |-> TRUE, plots |-> TRUE, verification |-> TRUE],
     max_cache_age_hours |-> 24,
     max_workers |-> 4,
     enable_background_generation |-> TRUE]

\* The configurations the manager is started with: the defaults, the
\* defaults merged with a cache_config.json that narrows the window to the
\* item before the current one and leaves only the segments type on, or the
\* defaults merged with one that turns background generation off.
Configs ==
    {DefaultConfig,
     [DefaultConfig EXCEPT !.cache_window = [Nr |-> 1, Nf |-> 0],
                           !.cache_types = [segments |-> TRUE, plots |-> FALSE,
                                            verification |-> FALSE]],
     [DefaultConfig EXCEPT !.enable_background_generation = FALSE]}

\* the entries a ledger map read from cache_status.json can hold
StrEntries == {<<StrKey(i), ty>> : i \in Items, ty \in TypeSet}

\* The ledger documents cache_status.json is taken to hold when the process
\* starts: a queue of at most one id and at most one entry in the three maps
\* together.
LedgerDocs ==
    {[DefaultStatus EXCEPT !.generation_queue = q,
                           !.completed = m[1],
                           !.failed = m[2],
                           !.in_progress = m[3],
                           !.total_generated = Cardinality(m[1]),
                           !.generation_time_avg =
                               IF m[1] = {} THEN <<0, 1>> ELSE <<2, 1>>] :
        q \in {<<>>, <<1>>},
        m \in {<<{}, {}, {}>>}
              \cup {<<{e}, {}, {}>> : e \in StrEntries}
              \cup {<<{}, {e}, {}>> : e \in StrEntries}
              \cup {<<{}, {}, {e}>> : e \in StrEntries}}

\* cache_status.json before the process starts: missing, unreadable, or a
\* ledger document
StatusFiles ==
    {NoFile, [NoFile EXCEPT !.exists = TRUE, !.corrupt = TRUE]}
    \cup {[exists |-> TRUE, corrupt |-> FALSE, doc |-> d] : d \in LedgerDocs}

NoOracle == [called |-> FALSE, op |-> "none", file_sequence |-> <<>>,
             current_file_id |-> None, Nr |-> 0, Nf |-> 0, cache_targets |-> <<>>,
             neighbour |-> None]

(* A file of a cache directory is named by its <<cache type, item>>.  disk *)
(* holds what cleanup_cache reads besides the presence of a file: the      *)
(* entries of VERIFICATION_CACHE_DIR, each file's modification time and    *)
(* the clock (both in hours), the files on which os.remove raises, and the *)
(* files os.remove has removed.  Here: empty directories.                  *)
EmptyDisk ==
    [ver_file |-> [i \in Items |-> "absent"],
     mtime |-> [f \in TypeSet \X Items |-> 0],
     now |-> 30,
     undeletable |-> {},
     removed |-> {}]

\* The global cache_manager before get_cache_manager() is first called:
\* instance is what the global names, made and started the instances (by
\* number) that CacheManager() has built and start() has started, returned
\* the instances the calls have given back, calls the calls begun.
NoManager ==
    [instance |-> None, made |-> {}, started |-> {}, returned |-> {}, calls |-> 0]

\* the global after one get_cache_manager() call
TheManager ==
    [instance |-> 1, made |-> {1}, started |-> {1}, returned |-> {1}, calls |-> 1]

\* the cache_config.json a configuration of Configs is loaded from: none for
\* the defaults, else a file holding the values that differ
ConfigFileOf(c) ==
    LET bool(b) == Leaf("bool", IF b THEN 1 ELSE 0)
    IN IF c = DefaultConfig THEN NoConfigFile
       ELSE [NoConfigFile EXCEPT
                !.exists = TRUE,
                !.doc = Dict([cache_window |->
                                  Dict([Nr |-> Leaf("int", c.cache_window.Nr),
                                        Nf |-> Leaf("int", c.cache_window.Nf)]),
                              cache_types |->
                                  Dict([segments |-> bool(c.cache_types.segments),
                                        plots |-> bool(c.cache_types.plots),
                                        verification |->
                                            bool(c.cache_types.verification)]),
                              enable_background_generation |->
                                  bool(c.enable_background_generation)])]

\* get_cache_manager(): CacheManager() followed by start()
Init ==
    /\ lock = Free
    /\ status_file \in StatusFiles
    /\ status = LoadStatus(status_file)
    /\ config \in Configs
    /\ running = TRUE
    /\ pool = [max_workers |-> config.max_workers, shutdown |-> FALSE]
    /\ seg_file = [i \in Items |-> "absent"]
    /\ plot_file = [i \in Items |-> "absent"]
    /\ pc = [t \in Threads |-> "idle"]
    /\ loc = [t \in Threads |-> NoCall]
    /\ oracle = NoOracle
    /\ disk = EmptyDisk
    /\ conf = CacheConfiguration(ConfigFileOf(config))
    /\ cache_manager = TheManager

(* ------------------------ CacheStatus: calls -------------------------- *)
(* `with self.lock:` of a mutating method, entered by thread t standing at *)
(* `from`, and the method's body up to its call of save_status(): the      *)
(* thread takes the free lock, changes the document to s2 and stands at    *)
(* "persist", inside save_status, before that method's `with self.lock:`.  *)
Mutate(t, from, op, s2) ==
    /\ pc[t] = from
    /\ lock = Free
    /\ lock' = t
    /\ status' = s2
    /\ pc' = [pc EXCEPT ![t] = "persist"]
    /\ loc' = [loc EXCEPT ![t].op = op]
    /\ UNCHANGED <<status_file, config, running, pool, seg_file, plot_file, oracle, disk, conf, cache_manager>>

(* save_status(), called on its own (from "idle") or by a mutating method  *)
(* (from "persist"): it takes the lock, writes the document and releases   *)
(* the lock.  Returning into a mutating method, the thread leaves that     *)
(* method's `with self.lock:` too and the method returns.  "last_updated"  *)
(* is not part of the modelled document.                                   *)
save_status(t) ==
    /\ pc[t] \in {"idle", "persist"}
    /\ lock = Free
    /\ status_file' = [exists |-> TRUE, corrupt |-> FALSE, doc |-> Dumped(status)]
    /\ lock' = Free
    /\ pc' = [pc EXCEPT ![t] = "idle"]
    /\ loc' = [loc EXCEPT ![t] = NoCall]
    /\ UNCHANGED <<status, config, running, pool, seg_file, plot_file, oracle, disk, conf, cache_manager>>

\* CacheStatus.update_current_file(file_id)
status_update_current_file(t, file_id) ==
    Mutate(t, "idle", "status.update_current_file", SetCurrent(status, file_id))

\* CacheStatus.add_to_queue(file_ids)
add_to_queue(t, file_ids) ==
    Mutate(t, "idle", "add_to_queue", Enqueued(status, file_ids))

\* CacheStatus.mark_in_progress(file_id, cache_type)
mark_in_progress(t, file_id, cache_type) ==
    Mutate(t, "idle", "mark_in_progress", InProgressMarked(status, file_id, cache_type))

\* CacheStatus.mark_completed(file_id, cache_type, generation_time)
mark_completed(t, file_id, cache_type, generation_time) ==
    Mutate(t, "idle", "mark_completed",
           CompletedMarked(status, file_id, cache_type, generation_time))

\* CacheStatus.mark_failed(file_id, cache_type, error)
mark_failed(t, file_id, cache_type) ==
    Mutate(t, "idle", "mark_failed", FailedMarked(status, file_id, cache_type))

(* ------------------------ CacheManager: calls ------------------------- *)
(* CacheManager.update_current_file(file_id): its first statement is       *)
(* self.status.update_current_file(file_id), in which the thread stays.    *)
update_current_file(t, file_id) ==
    Mutate(t, "idle", "update_current_file", SetCurrent(status, file_id))

(* _trigger_background_generation(current_file_id), first half of          *)
(* get_cache_window(): self.get('cache_window.Nr', 3)                      *)
trigger_read_Nr(t, current_file_id) ==
    /\ pc[t] = "idle"
    /\ pc' = [pc EXCEPT ![t] = "trigger_Nf"]
    /\ loc' = [loc EXCEPT ![t] = [NoCall EXCEPT !.op = "trigger",
                                                !.file_id = current_file_id,
                                                !.Nr = config.cache_window.Nr]]
    /\ UNCHANGED <<lock, status, status_file, config, running, pool, seg_file,
                   plot_file, oracle, disk, conf, cache_manager>>

\* second half of get_cache_window(): self.get('cache_window.Nf', 10)
trigger_read_Nf(t) ==
    /\ pc[t] = "trigger_Nf"
    /\ pc' = [pc EXCEPT ![t] = "trigger_targets"]
    /\ loc' = [loc EXCEPT ![t].Nf = config.cache_window.Nf]
    /\ UNCHANGED <<lock, status, status_file, config, running, pool, seg_file,
                   plot_file, oracle, disk, conf, cache_manager>>

(* get_cache_targets on the sequence read from the store, and the filter   *)
(* loop.  With nothing to generate the call returns; otherwise the thread  *)
(* goes on to self.status.add_to_queue(targets_to_generate).               *)
trigger_targets(t) ==
    /\ pc[t] = "trigger_targets"
    /\ \E file_sequence \in FileSequences :
          LET cache_targets == get_cache_targets(file_sequence, loc[t].file_id,
                                                 loc[t].Nr, loc[t].Nf)
              todo == targets_to_generate(config, status, cache_targets)
          IN IF todo = <<>>
             THEN /\ pc' = [pc EXCEPT ![t] = "idle"]
                  /\ loc' = [loc EXCEPT ![t] = NoCall]
             ELSE /\ pc' = [pc EXCEPT ![t] = "trigger_enqueue"]
                  /\ loc' = [loc EXCEPT ![t].window = cache_targets,
                                         ![t].targets = todo]
    /\ UNCHANGED <<lock, status, status_file, config, running, pool, seg_file,
                   plot_file, oracle, disk, conf, cache_manager>>

(* self.status.add_to_queue(targets_to_generate) of the trigger; the       *)
(* submissions to the executor follow its return.                          *)
trigger_add_to_queue(t) ==
    Mutate(t, "trigger_enqueue", "trigger", Enqueued(status, loc[t].targets))

(* CacheManager.stop(): executor.shutdown(wait=True) returns once the      *)
(* executor holds no unfinished task.                                      *)
stop(t) ==
    /\ pc[t] = "idle"
    /\ ~pool.shutdown
    /\ running' = FALSE
    /\ pool' = [pool EXCEPT !.shutdown = TRUE]
    /\ UNCHANGED <<lock, status, status_file, config, seg_file, plot_file, pc,
                   loc, oracle, disk, conf, cache_manager>>

\* the lists of ids add_to_queue is called with
IdLists == {<<>>} \cup {<<i>> : i \in Items} \cup {<<i, j>> : i \in Items, j \in Items}
\* the generation times mark_completed is called with, in seconds
Durations == {2, 4}

Next ==
    \E t \in Threads :
        \/ save_status(t)
        \/ \E i \in Items : status_update_current_file(t, i)
        \/ \E ids \in IdLists : add_to_queue(t, ids)
        \/ \E i \in Items, ty \in TypeSet : mark_in_progress(t, i, ty)
        \/ \E i \in Items, ty \in TypeSet, d \in Durations : mark_completed(t, i, ty, d)
        \/ \E i \in Items, ty \in TypeSet : mark_failed(t, i, ty)
        \/ \E i \in Items : update_current_file(t, i)
        \/ \E i \in Items : trigger_read_Nr(t, i)
        \/ trigger_read_Nf(t)
        \/ trigger_targets(t)
        \/ trigger_add_to_queue(t)
        \/ stop(t)

Spec == Init /\ [][Next]_vars

(* ------------- the calls that change the ledger, alone ---------------- *)
\* CacheStatus's mutating methods, save_status and
\* CacheManager.update_current_file, from every initial state of Spec
NextLedger ==
    \E t \in Threads :
        \/ save_status(t)
        \/ \E i \in Items : status_update_current_file(t, i)
        \/ \E ids \in IdLists : add_to_queue(t, ids)
        \/ \E i \in Items, ty \in TypeSet : mark_in_progress(t, i, ty)
        \/ \E i \in Items, ty \in TypeSet, d \in Durations : mark_completed(t, i, ty, d)
        \/ \E i \in Items, ty \in TypeSet : mark_failed(t, i, ty)
        \/ \E i \in Items : update_current_file(t, i)

SpecLedger == Init /\ [][NextLedger]_vars

(* --------------- get_cache_targets called on its own ------------------ *)
\* the manager started with no status file and the default configuration
InitPlain ==
    /\ lock = Free
    /\ status_file = NoFile
    /\ status = LoadStatus(status_file)
    /\ config = DefaultConfig
    /\ running = TRUE
    /\ pool = [max_workers |-> config.max_workers, shutdown |-> FALSE]
    /\ pc = [t \in Threads |-> "idle"]
    /\ loc = [t \in Threads |-> NoCall]
    /\ oracle = NoOracle
    /\ cache_manager = TheManager

InitTargets ==
    /\ InitPlain
    /\ conf = CacheConfiguration(NoConfigFile)
    /\ disk = EmptyDisk
    /\ seg_file = [i \in Items |-> "absent"]
    /\ plot_file = [i \in Items |-> "absent"]

\* file_manager.get_cache_targets(current_file_id, Nr, Nf) while the store
\* holds file_sequence
call_get_cache_targets(file_sequence, current_file_id, Nr, Nf) ==
    /\ oracle' = [called |-> TRUE,
                  op |-> "get_cache_targets",
                  neighbour |-> None,
                  file_sequence |-> file_sequence,
                  current_file_id |-> current_file_id,
                  Nr |-> Nr, Nf |-> Nf,
                  cache_targets |-> get_cache_targets(file_sequence, current_file_id,
                                                      Nr, Nf)]
    /\ UNCHANGED <<lock, status, status_file, config, running, pool, seg_file,
                   plot_file, pc, loc, disk, conf, cache_manager>>

NextTargets ==
    \E file_sequence \in FileSequences, current_file_id \in Items,
       Nr \in 0..MaxWin, Nf \in 0..MaxWin :
        call_get_cache_targets(file_sequence, current_file_id, Nr, Nf)

SpecTargets == InitTargets /\ [][NextTargets]_vars

(* ------------- the three queries of FileSequenceManager --------------- *)
OracleFrame ==
    UNCHANGED <<lock, status, status_file, config, running, pool, seg_file,
                plot_file, pc, loc, disk, conf, cache_manager>>

\* file_manager.get_next_file(current_file_id) while the store holds
\* file_sequence
call_get_next_file(file_sequence, current_file_id) ==
    /\ oracle' = [NoOracle EXCEPT
                     !.called = TRUE, !.op = "get_next_file",
                     !.file_sequence = file_sequence,
                     !.current_file_id = current_file_id,
                     !.neighbour = get_next_file(file_sequence, current_file_id)]
    /\ OracleFrame

\* file_manager.get_previous_file(current_file_id), likewise
call_get_previous_file(file_sequence, current_file_id) ==
    /\ oracle' = [NoOracle EXCEPT
                     !.called = TRUE, !.op = "get_previous_file",
                     !.file_sequence = file_sequence,
                     !.current_file_id = current_file_id,
                     !.neighbour = get_previous_file(file_sequence, current_file_id)]
    /\ OracleFrame

NextSequence ==
    \/ NextTargets
    \/ \E file_sequence \in FileSequences, current_file_id \in Items :
           \/ call_get_next_file(file_sequence, current_file_id)
           \/ call_get_previous_file(file_sequence, current_file_id)

SpecSequence == InitTargets /\ [][NextSequence]_vars

(* --------------------------- point lookups ---------------------------- *)
\* A cache file is "absent", "valid" (it parses) or "corrupt" (it exists and
\* json.load raises on it).  The layouts tried: no file, or one file.
OneFile(st) == {[i \in Items |-> IF i = j THEN st ELSE "absent"] : j \in Items}
SegLayouts == {[i \in Items |-> "absent"]} \cup OneFile("valid") \cup OneFile("corrupt")
PlotLayouts == {[i \in Items |-> "absent"],
                [i \in Items |-> IF i = 1 THEN "valid" ELSE "absent"],
                [i \in Items |-> IF i = 1 THEN "corrupt" ELSE "absent"]}

InitLookup ==
    /\ InitPlain
    /\ conf = CacheConfiguration(NoConfigFile)
    /\ disk = EmptyDisk
    /\ seg_file \in SegLayouts
    /\ plot_file \in PlotLayouts

LookupFrame == UNCHANGED <<lock, status_file, config, running, pool, seg_file,
                           plot_file, oracle, disk, conf, cache_manager>>

(* get_cached_segments(file_id) up to the first counter: os.path.exists,   *)
(* and open() when the file exists.  What the open file holds stays what   *)
(* it was, whatever happens to the directory entry afterwards.             *)
get_cached_segments(t, file_id) ==
    /\ pc[t] = "idle"
    /\ status.cache_hits < MaxCount
    /\ status.cache_misses < MaxCount
    /\ pc' = [pc EXCEPT ![t] = IF seg_file[file_id] = "absent"
                               THEN "miss_read" ELSE "hit_read"]
    /\ loc' = [loc EXCEPT ![t] = [NoCall EXCEPT !.op = "get_cached_segments",
                                                !.file_id = file_id,
                                                !.opened = seg_file[file_id]]]
    /\ UNCHANGED status
    /\ LookupFrame

\* stats["cache_hits"] += 1, the read of the counter
hit_read(t) ==
    /\ pc[t] = "hit_read"
    /\ pc' = [pc EXCEPT ![t] = "hit_write"]
    /\ loc' = [loc EXCEPT ![t].tmp = status.cache_hits]
    /\ UNCHANGED status
    /\ LookupFrame

(* stats["cache_hits"] += 1, the store of the counter, then                *)
(* return json.load(f): the payload, or the exception that is logged and   *)
(* leaves the `if` for the miss counter.                                   *)
hit_write(t) ==
    /\ pc[t] = "hit_write"
    /\ status' = [status EXCEPT !.cache_hits = loc[t].tmp + 1]
    /\ IF loc[t].opened = "valid"
       THEN /\ pc' = [pc EXCEPT ![t] = "done"]
            /\ loc' = [loc EXCEPT ![t].hits_added = @ + 1, ![t].result = "payload"]
       ELSE /\ pc' = [pc EXCEPT ![t] = "miss_read"]
            /\ loc' = [loc EXCEPT ![t].hits_added = @ + 1]
    /\ LookupFrame

\* stats["cache_misses"] += 1, the read of the counter
miss_read(t) ==
    /\ pc[t] = "miss_read"
    /\ pc' = [pc EXCEPT ![t] = "miss_write"]
    /\ loc' = [loc EXCEPT ![t].tmp = status.cache_misses]
    /\ UNCHANGED status
    /\ LookupFrame

\* stats["cache_misses"] += 1, the store of the counter, then return None
miss_write(t) ==
    /\ pc[t] = "miss_write"
    /\ status' = [status EXCEPT !.cache_misses = loc[t].tmp + 1]
    /\ pc' = [pc EXCEPT ![t] = "done"]
    /\ loc' = [loc EXCEPT ![t].misses_added = @ + 1, ![t].result = "absent"]
    /\ LookupFrame

\* get_cached_plots(file_id): the parsed file, or None
get_cached_plots(t, file_id) ==
    /\ pc[t] = "idle"
    /\ pc' = [pc EXCEPT ![t] = "done"]
    /\ loc' = [loc EXCEPT ![t] = [NoCall EXCEPT !.op = "get_cached_plots",
                                                !.file_id = file_id,
                                                !.opened = plot_file[file_id],
                                                !.result = IF plot_file[file_id] = "valid"
                                                           THEN "payload" ELSE "absent"]]
    /\ UNCHANGED status
    /\ LookupFrame

\* the caller takes the result of the lookup
lookup_return(t) ==
    /\ pc[t] = "done"
    /\ pc' = [pc EXCEPT ![t] = "idle"]
    /\ loc' = [loc EXCEPT ![t] = NoCall]
    /\ UNCHANGED status
    /\ LookupFrame

NextLookup ==
    \E t \in Threads :
        \/ \E i \in Items : get_cached_segments(t, i)
        \/ hit_read(t)
        \/ hit_write(t)
        \/ miss_read(t)
        \/ miss_write(t)
        \/ \E i \in Items : get_cached_plots(t, i)
        \/ lookup_return(t)

SpecLookup == InitLookup /\ [][NextLookup]_vars

(* --------------------------- cleanup_cache ---------------------------- *)
\* [SEGMENTS_CACHE_DIR, PLOTS_CACHE_DIR, VERIFICATION_CACHE_DIR], each named
\* by its cache type
CacheDirs == <<"segments", "plots", "verification">>

\* the state of the file of item i in the directory of cache type ty
FileState(ty, i) ==
    IF ty = "segments" THEN seg_file[i]
    ELSE IF ty = "plots" THEN plot_file[i]
    ELSE disk.ver_file[i]

\* os.path.isfile(file_path)
isfile(f) == FileState(f[1], f[2]) # "absent"

\* os.listdir(cache_dir), its entries taken in ascending order of item
listdir(ty) == Ascending({i \in Items : isfile(<<ty, i>>)}, 1)

\* the file the loop of thread t stands at
CurrentFile(t) == <<CacheDirs[loc[t].dir], Head(loc[t].listing)>>

CleanupFrame ==
    UNCHANGED <<lock, status, status_file, config, running, pool, oracle, conf, cache_manager>>

(* cleanup_cache(), up to the loop over the directories: max_age_hours and *)
(* cutoff_time = datetime.now() - timedelta(hours=max_age_hours)           *)
cleanup_cache(t) ==
    /\ pc[t] = "idle"
    /\ pc' = [pc EXCEPT ![t] = "cleanup_listdir"]
    /\ loc' = [loc EXCEPT ![t] =
                  [NoCall EXCEPT !.op = "cleanup_cache",
                                 !.cutoff_time = disk.now - config.max_cache_age_hours,
                                 !.dir = 1]]
    /\ UNCHANGED <<seg_file, plot_file, disk>>
    /\ CleanupFrame

\* for filename in os.listdir(cache_dir): the listing is taken once
cleanup_listdir(t) ==
    /\ pc[t] = "cleanup_listdir"
    /\ pc' = [pc EXCEPT ![t] = "cleanup_isfile"]
    /\ loc' = [loc EXCEPT ![t].listing = listdir(CacheDirs[loc[t].dir])]
    /\ UNCHANGED <<seg_file, plot_file, disk>>
    /\ CleanupFrame

(* The head of the inner loop: with the listing used up, the next          *)
(* directory, or the end of cleanup_cache after the last one; otherwise    *)
(* os.path.isfile(file_path), which is False for an entry that is gone.    *)
cleanup_isfile(t) ==
    /\ pc[t] = "cleanup_isfile"
    /\ IF loc[t].listing = <<>>
       THEN IF loc[t].dir = Len(CacheDirs)
            THEN /\ pc' = [pc EXCEPT ![t] = "cleanup_done"]
                 /\ loc' = loc
            ELSE /\ pc' = [pc EXCEPT ![t] = "cleanup_listdir"]
                 /\ loc' = [loc EXCEPT ![t].dir = @ + 1]
       ELSE IF isfile(CurrentFile(t))
            THEN /\ pc' = [pc EXCEPT ![t] = "cleanup_getmtime"]
                 /\ loc' = loc
            ELSE /\ pc' = pc
                 /\ loc' = [loc EXCEPT ![t].listing = Tail(@)]
    /\ UNCHANGED <<seg_file, plot_file, disk>>
    /\ CleanupFrame

(* cleanup_getmtime with a file at the cutoff time taken for an old one    *)
cleanup_getmtime_at_cutoff(t) ==
    /\ pc[t] = "cleanup_getmtime"
    /\ IF ~isfile(CurrentFile(t))
       THEN /\ pc' = [pc EXCEPT ![t] = "cleanup_raised"]
            /\ loc' = loc
       ELSE IF disk.mtime[CurrentFile(t)] <= loc[t].cutoff_time
            THEN /\ pc' = [pc EXCEPT ![t] = "cleanup_remove"]
                 /\ loc' = loc
            ELSE /\ pc' = [pc EXCEPT ![t] = "cleanup_isfile"]
                 /\ loc' = [loc EXCEPT ![t].listing = Tail(@)]
    /\ UNCHANGED <<seg_file, plot_file, disk>>
    /\ CleanupFrame

(* file_time = datetime.fromtimestamp(os.path.getmtime(file_path)) and     *)
(* `if file_time < cutoff_time`.  os.path.getmtime raises on a file that   *)
(* is gone; nothing in cleanup_cache catches that.                         *)
cleanup_getmtime(t) ==
    /\ pc[t] = "cleanup_getmtime"
    /\ IF ~isfile(CurrentFile(t))
       THEN /\ pc' = [pc EXCEPT ![t] = "cleanup_raised"]
            /\ loc' = loc
       ELSE IF disk.mtime[CurrentFile(t)] < loc[t].cutoff_time
            THEN /\ pc' = [pc EXCEPT ![t] = "cleanup_remove"]
                 /\ loc' = loc
            ELSE /\ pc' = [pc EXCEPT ![t] = "cleanup_isfile"]
                 /\ loc' = [loc EXCEPT ![t].listing = Tail(@)]
    /\ UNCHANGED <<seg_file, plot_file, disk>>
    /\ CleanupFrame

(* try: os.remove(file_path) / except Exception: logger.error(...).  The   *)
(* loop goes on with the next entry either way.                            *)
cleanup_remove(t) ==
    /\ pc[t] = "cleanup_remove"
    /\ LET f == CurrentFile(t)
           removes == isfile(f) /\ f \notin disk.undeletable
       IN /\ seg_file' = IF removes /\ f[1] = "segments"
                         THEN [seg_file EXCEPT ![f[2]] = "absent"] ELSE seg_file
          /\ plot_file' = IF removes /\ f[1] = "plots"
                          THEN [plot_file EXCEPT ![f[2]] = "absent"] ELSE plot_file
          /\ disk' = IF removes
                     THEN [disk EXCEPT
                              !.ver_file = IF f[1] = "verification"
                                           THEN [@ EXCEPT ![f[2]] = "absent"] ELSE @,
                              !.removed = @ \cup {f}]
                     ELSE disk
    /\ pc' = [pc EXCEPT ![t] = "cleanup_isfile"]
    /\ loc' = [loc EXCEPT ![t].listing = Tail(@)]
    /\ CleanupFrame

\* cleanup_cache returns, or its exception reaches the caller
cleanup_return(t) ==
    /\ pc[t] \in {"cleanup_done", "cleanup_raised"}
    /\ pc' = [pc EXCEPT ![t] = "idle"]
    /\ loc' = [loc EXCEPT ![t] = NoCall]
    /\ UNCHANGED <<seg_file, plot_file, disk>>
    /\ CleanupFrame

(* What one cache directory is taken to hold when the process starts, with *)
(* the default max_cache_age_hours of 24 and the clock at 30 (cutoff 6):   *)
(* nothing; an old file; an old file that cannot be removed and, after it, *)
(* an old one that can; a new file and an old one; a file exactly at the   *)
(* cutoff.                                                                 *)
DirLayouts ==
    {[present |-> {}, mtime |-> <<5, 5>>, undeletable |-> {}],
     [present |-> {1}, mtime |-> <<5, 5>>, undeletable |-> {}],
     [present |-> {1, 2}, mtime |-> <<5, 5>>, undeletable |-> {1}],
     [present |-> {1, 2}, mtime |-> <<7, 5>>, undeletable |-> {}],
     [present |-> {1}, mtime |-> <<6, 5>>, undeletable |-> {}]}

\* the files of a directory with layout d
LayoutFiles(d) == [i \in Items |-> IF i \in d.present THEN "valid" ELSE "absent"]

InitCleanup ==
    /\ InitPlain
    /\ conf = CacheConfiguration(NoConfigFile)
    /\ \E s \in DirLayouts, p \in DirLayouts, v \in DirLayouts :
          LET layout == [segments |-> s, plots |-> p, verification |-> v]
          IN /\ v.present \subseteq {1}
             /\ seg_file = LayoutFiles(s)
             /\ plot_file = LayoutFiles(p)
             /\ disk = [EmptyDisk EXCEPT
                           !.ver_file = LayoutFiles(v),
                           !.mtime = [f \in TypeSet \X Items |->
                                         IF f[2] <= 2 THEN layout[f[1]].mtime[f[2]]
                                         ELSE 0],
                           !.undeletable =
                               {f \in TypeSet \X Items :
                                    f[2] \in layout[f[1]].undeletable}]

NextCleanup ==
    \E t \in Threads :
        \/ cleanup_cache(t)
        \/ cleanup_listdir(t)
        \/ cleanup_isfile(t)
        \/ cleanup_getmtime(t)
        \/ cleanup_remove(t)
        \/ cleanup_return(t)
        \/ \E ty \in {"segments", "plots"} : mark_completed(t, 1, ty, 2)
        \/ \E i \in {1, 2} : get_cached_segments(t, i)
        \/ hit_read(t)
        \/ hit_write(t)
        \/ miss_read(t)
        \/ miss_write(t)
        \/ \E i \in {1, 2} : get_cached_plots(t, i)
        \/ lookup_return(t)

SpecCleanup == InitCleanup /\ [][NextCleanup]_vars

\* cleanup_cache calls alone, from the same initial states
NextCleanupOnly ==
    \E t \in Threads :
        \/ cleanup_cache(t)
        \/ cleanup_listdir(t)
        \/ cleanup_isfile(t)
        \/ cleanup_getmtime(t)
        \/ cleanup_remove(t)
        \/ cleanup_return(t)

SpecCleanupOnly == InitCleanup /\ [][NextCleanupOnly]_vars

(* ------------------- the configuration surface ------------------------ *)
\* One client makes the requests one after another; each call runs to its
\* end before the next.

\* the dotted paths the calls are made with
KeyPaths ==
    {<<"cache_window", ".", "Nr">>,
     <<"cache_window", ".", "Nf">>,
     <<"cache_window">>,
     <<"auto_cleanup">>,
     <<"auto_cleanup", ".", "x">>,
     <<"extra", ".", "depth", ".", "x">>}

\* the values the calls store
Values == {Leaf("int", 7), Leaf("int", 51), Dict([x |-> Leaf("bool", 0)])}

\* the defaults get is called with
Defaults == {Leaf("int", 0), Leaf("str", 0)}

\* a key the request's JSON does not hold
Absent == Leaf("absent", 0)

\* what the window request holds under 'Nr', and under 'Nf'
NrArgs == {Absent, Leaf("str", 0)} \cup {Leaf("int", n) : n \in {0 - 1, 0, 50, 51}}
NfArgs == {Absent} \cup {Leaf("int", n) : n \in {0 - 1, 100, 101}}

\* the bodies of the generic update request: one or two distinct paths, in
\* the order the JSON object lists them
Bodies ==
    LET pairs == {<<<<"cache_window", ".", "Nr">>, Leaf("int", 51)>>,
                  <<<<"cache_window", ".", "Nf">>, Leaf("int", 101)>>,
                  <<<<"cache_window", ".", "Nr">>, Leaf("int", 7)>>,
                  <<<<"auto_cleanup", ".", "x">>, Leaf("int", 7)>>,
                  <<<<"extra", ".", "depth", ".", "x">>, Leaf("int", 7)>>}
    IN {<<a>> : a \in pairs}
       \cup {d \in {<<a, b>> : a \in pairs, b \in pairs} : d[1][1] # d[2][1]}

\* cache_config.json when the process starts
ConfigFiles ==
    LET docs == {Dict(<<>>),
                 Leaf("int", 7),
                 Dict([cache_window |-> Dict([Nr |-> Leaf("int", 7)])]),
                 Dict([cache_window |-> Dict(<<>>)]),
                 Dict([cache_window |-> Leaf("int", 7)]),
                 Dict([auto_cleanup |-> Dict([x |-> Leaf("int", 7)])]),
                 Dict([auto_cleanup |-> Leaf("bool", 0),
                       extra |-> Dict([depth |-> Leaf("int", 7)]),
                       performance |-> Dict([max_workers |-> Leaf("int", 7),
                                             threads |-> Leaf("int", 7)])])}
    IN {[NoConfigFile EXCEPT !.writable = w] : w \in BOOLEAN}
       \cup {[exists |-> TRUE, corrupt |-> TRUE, doc |-> Dict(<<>>),
              writable |-> TRUE]}
       \cup {[exists |-> TRUE, corrupt |-> FALSE, doc |-> d, writable |-> TRUE] :
                d \in docs}

InitConfig ==
    /\ InitPlain
    /\ disk = EmptyDisk
    /\ seg_file = [i \in Items |-> "absent"]
    /\ plot_file = [i \in Items |-> "absent"]
    /\ \E config_file \in ConfigFiles : conf = CacheConfiguration(config_file)

ConfigFrame ==
    UNCHANGED <<lock, status, status_file, config, running, pool, seg_file,
                plot_file, pc, loc, oracle, disk, cache_manager>>

\* what conf holds after a call that made the given sets in turn, as far as
\* they went: every set that returns has called save_config
RECURSIVE SetAll(_, _)
SetAll(c, data) ==
    IF data = <<>> THEN [c EXCEPT !.raised = FALSE]
    ELSE LET r == set(c.config, split(data[1][1]), data[1][2])
         IN IF r.raised THEN [c EXCEPT !.raised = TRUE]
            ELSE SetAll([c EXCEPT !.config = r.config,
                                  !.config_file = save_config(r.config, @)],
                        Tail(data))

\* config.set(key_path, value), called on the configuration itself
call_set(key_path, value) ==
    /\ conf.calls < MaxCalls
    /\ LET c == SetAll(conf, <<<<key_path, value>>>>)
       IN conf' = [c EXCEPT
                      !.calls = @ + 1, !.op = "set", !.key_path = key_path,
                      !.value = value, !.data = <<>>, !.success = TRUE,
                      !.windows = @ \cup {get_cache_window(c.config)}]
    /\ ConfigFrame

\* config.get(key_path, default), called on the configuration itself
call_get(key_path, default) ==
    /\ conf.calls < MaxCalls
    /\ conf' = [conf EXCEPT
                   !.calls = @ + 1, !.op = "get", !.key_path = key_path,
                   !.default = default, !.data = <<>>,
                   !.result = get(conf.config, split(key_path), default),
                   !.raised = FALSE, !.success = TRUE]
    /\ ConfigFrame

\* POST /api/config/update with the JSON object data: the exception of a
\* set is caught and answered with success: False
update_config(data) ==
    /\ conf.calls < MaxCalls
    /\ LET c == SetAll(conf, data)
       IN conf' = [c EXCEPT !.calls = @ + 1, !.op = "update_config",
                            !.key_path = <<>>, !.data = data,
                            !.success = ~c.raised, !.raised = FALSE,
                            !.windows = @ \cup {get_cache_window(c.config)}]
    /\ ConfigFrame

\* the largest Nr and the largest Nf the window request accepts
Nr_max == 50
Nf_max == 100

\* int(data.get(key, default)): raises on text that is no number
IntOf(arg, default) ==
    IF arg = Absent THEN [raised |-> FALSE, n |-> default]
    ELSE IF arg.kind \in {"int", "bool"} THEN [raised |-> FALSE, n |-> arg.value]
    ELSE [raised |-> TRUE, n |-> 0]

\* POST /api/cache/window/update with the JSON object {Nr: nr, Nf: nf},
\* either key possibly missing
update_cache_window(nr, nf) ==
    /\ conf.calls < MaxCalls
    /\ LET Nr == IntOf(nr, 3)
           Nf == IntOf(nf, 10)
           rejected == \/ Nr.raised \/ Nf.raised
                       \/ Nr.n < 0 \/ Nr.n > Nr_max
                       \/ Nf.n < 0 \/ Nf.n > Nf_max
           c == IF rejected THEN [conf EXCEPT !.raised = TRUE]
                ELSE SetAll(conf, <<<<<<"cache_window", ".", "Nr">>,
                                       Leaf("int", Nr.n)>>,
                                     <<<<"cache_window", ".", "Nf">>,
                                       Leaf("int", Nf.n)>>>>)
       IN conf' = [c EXCEPT !.calls = @ + 1, !.op = "update_cache_window",
                            !.key_path = <<>>, !.data = <<nr, nf>>,
                            !.success = ~c.raised, !.raised = FALSE,
                            !.windows = @ \cup {get_cache_window(c.config)}]
    /\ ConfigFrame

NextConfig ==
    \/ \E key_path \in KeyPaths, value \in Values : call_set(key_path, value)
    \/ \E key_path \in KeyPaths, default \in Defaults : call_get(key_path, default)
    \/ \E data \in Bodies : update_config(data)
    \/ \E nr \in NrArgs, nf \in NfArgs : update_cache_window(nr, nf)

SpecConfig == InitConfig /\ [][NextConfig]_vars

(* ---------- a window request while triggers are under way ------------- *)
\* The request of update_cache_window with two integers inside the bounds,
\* taken statement by statement; the triggers of other threads run between
\* its statements.  Window requests come one after another.
NoWindowRequest == \A u \in Threads : pc[u] # "window_Nf"

WindowFrame ==
    UNCHANGED <<lock, status, status_file, running, pool, seg_file, plot_file,
                oracle, disk, cache_manager>>

\* cache_mgr.config.set('cache_window.Nr', Nr), with its save_config
window_set_Nr(t, Nr, Nf) ==
    /\ pc[t] = "idle"
    /\ NoWindowRequest
    /\ conf.calls < MaxUpdates
    /\ 0 <= Nr /\ Nr <= Nr_max /\ 0 <= Nf /\ Nf <= Nf_max
    /\ LET r == set(conf.config, split(<<"cache_window", ".", "Nr">>),
                    Leaf("int", Nr))
       IN conf' = [conf EXCEPT !.config = r.config,
                               !.config_file = save_config(r.config, @),
                               !.op = "update_cache_window",
                               !.data = <<Leaf("int", Nr), Leaf("int", Nf)>>]
    /\ config' = [config EXCEPT !.cache_window.Nr = Nr]
    /\ pc' = [pc EXCEPT ![t] = "window_Nf"]
    /\ loc' = [loc EXCEPT ![t] = [NoCall EXCEPT !.op = "update_cache_window",
                                                !.Nr = Nr, !.Nf = Nf]]
    /\ WindowFrame

\* cache_mgr.config.set('cache_window.Nf', Nf), and the answer
window_set_Nf(t) ==
    /\ pc[t] = "window_Nf"
    /\ LET r == set(conf.config, split(<<"cache_window", ".", "Nf">>),
                    Leaf("int", loc[t].Nf))
       IN conf' = [conf EXCEPT !.config = r.config,
                               !.config_file = save_config(r.config, @),
                               !.calls = @ + 1,
                               !.success = TRUE,
                               !.windows = @ \cup {get_cache_window(r.config)}]
    /\ config' = [config EXCEPT !.cache_window.Nf = loc[t].Nf]
    /\ pc' = [pc EXCEPT ![t] = "idle"]
    /\ loc' = [loc EXCEPT ![t] = NoCall]
    /\ WindowFrame

NextWindow ==
    \E t \in Threads :
        \/ \E Nr \in 0..MaxWin, Nf \in 0..MaxWin : window_set_Nr(t, Nr, Nf)
        \/ window_set_Nf(t)
        \/ \E i \in Items : trigger_read_Nr(t, i)
        \/ trigger_read_Nf(t)
        \/ trigger_targets(t)
        \/ trigger_add_to_queue(t)

SpecWindow == InitTargets /\ [][NextWindow]_vars

(* ----------------------- get_cache_manager ---------------------------- *)
\* the module has been imported and no thread has called the accessor yet
InitAccessor ==
    /\ lock = Free
    /\ status_file = NoFile
    /\ status = LoadStatus(status_file)
    /\ config = DefaultConfig
    /\ running = FALSE
    /\ pool = [max_workers |-> config.max_workers, shutdown |-> FALSE]
    /\ seg_file = [i \in Items |-> "absent"]
    /\ plot_file = [i \in Items |-> "absent"]
    /\ pc = [t \in Threads |-> "idle"]
    /\ loc = [t \in Threads |-> NoCall]
    /\ oracle = NoOracle
    /\ disk = EmptyDisk
    /\ conf = CacheConfiguration(NoConfigFile)
    /\ cache_manager = NoManager

AccessorFrame ==
    UNCHANGED <<lock, status, status_file, config, pool, seg_file, plot_file,
                oracle, disk, conf>>

\* get_cache_manager(): `if cache_manager is None:`
accessor_test(t) ==
    /\ pc[t] = "idle"
    /\ cache_manager.calls < MaxCalls + NThreads
    /\ cache_manager' = [cache_manager EXCEPT !.calls = @ + 1]
    /\ pc' = [pc EXCEPT ![t] = IF cache_manager.instance = None
                               THEN "accessor_construct"
                               ELSE "accessor_return"]
    /\ loc' = [loc EXCEPT ![t] = [NoCall EXCEPT !.op = "get_cache_manager"]]
    /\ UNCHANGED running
    /\ AccessorFrame

\* CacheManager(): a new instance, held by the thread
accessor_construct(t) ==
    /\ pc[t] = "accessor_construct"
    /\ LET new == Cardinality(cache_manager.made) + 1
       IN /\ cache_manager' = [cache_manager EXCEPT !.made = @ \cup {new}]
          /\ loc' = [loc EXCEPT ![t].tmp = new]
    /\ pc' = [pc EXCEPT ![t] = "accessor_assign"]
    /\ UNCHANGED running
    /\ AccessorFrame

\* cache_manager = <the new instance>
accessor_assign(t) ==
    /\ pc[t] = "accessor_assign"
    /\ cache_manager' = [cache_manager EXCEPT !.instance = loc[t].tmp]
    /\ pc' = [pc EXCEPT ![t] = "accessor_start"]
    /\ UNCHANGED <<loc, running>>
    /\ AccessorFrame

\* cache_manager.start(), on the instance the global names by now
accessor_start(t) ==
    /\ pc[t] = "accessor_start"
    /\ cache_manager' = [cache_manager EXCEPT !.started = @ \cup {cache_manager.instance}]
    /\ running' = TRUE
    /\ pc' = [pc EXCEPT ![t] = "accessor_return"]
    /\ UNCHANGED loc
    /\ AccessorFrame

\* return cache_manager
accessor_return(t) ==
    /\ pc[t] = "accessor_return"
    /\ cache_manager' = [cache_manager EXCEPT !.returned = @ \cup {cache_manager.instance}]
    /\ pc' = [pc EXCEPT ![t] = "idle"]
    /\ loc' = [loc EXCEPT ![t] = NoCall]
    /\ UNCHANGED running
    /\ AccessorFrame

NextAccessor ==
    \E t \in Threads :
        \/ accessor_test(t)
        \/ accessor_construct(t)
        \/ accessor_assign(t)
        \/ accessor_start(t)
        \/ accessor_return(t)

SpecAccessor == InitAccessor /\ [][NextAccessor]_vars

(* ------------------------------ claims -------------------------------- *)
\* A thread that stands in save_status with the lock it took itself stays
\* there: no call of a mutating method of CacheStatus returns.
PersistIsFinal == [][\A t \in Threads : pc[t] = "persist" => pc'[t] = "persist"]_vars

(* C1: each mutating ledger operation, called while the ledger mutex is    *)
(* free, takes the mutex, updates the in-memory document, persists it,     *)
(* releases the mutex and returns.  As a state invariant: a thread that    *)
(* has updated the document under the mutex is able to take the step that  *)
(* persists it, releases the mutex and returns.                            *)
C1_MutatingCallPersistsAndReturns ==
    \A t \in Threads : pc[t] = "persist" => ENABLED save_status(t)

\* 1-based position of x in a sequence without duplicates that holds x
PositionOf(seq, x) == CHOOSE p \in 1..Len(seq) : seq[p] = x

(* C2: for an ascending sequence without duplicates, a current id at       *)
(* position i of it and non-negative Nr, Nf, get_cache_targets returns     *)
(* exactly the items at positions max(first, i-Nr) .. min(last, i+Nf), in  *)
(* order: the result holds the current id, has at most Nr+Nf+1 items, and  *)
(* its items stand at consecutive positions of the sequence.  For the      *)
(* sequence 101..130, Nr = 3, Nf = 10 and current 110 it is 107..120.      *)
C2_TargetsAreTheClampedWindow ==
    /\ get_cache_targets([k \in 1..30 |-> 100 + k], 110, 3, 10)
          = [k \in 1..14 |-> 106 + k]
    /\ (oracle.called
        /\ \E p \in 1..Len(oracle.file_sequence) :
               oracle.file_sequence[p] = oracle.current_file_id)
       => LET seq == oracle.file_sequence
              out == oracle.cache_targets
              i == PositionOf(seq, oracle.current_file_id)
              first == IF i - oracle.Nr < 1 THEN 1 ELSE i - oracle.Nr
              last == IF i + oracle.Nf > Len(seq) THEN Len(seq) ELSE i + oracle.Nf
          IN /\ Len(out) = last - first + 1
             /\ \A k \in 1..Len(out) : out[k] = seq[first + k - 1]
             /\ \E k \in 1..Len(out) : out[k] = oracle.current_file_id
             /\ Len(out) <= oracle.Nr + oracle.Nf + 1
             /\ \A k \in 1..(Len(out) - 1) :
                    PositionOf(seq, out[k + 1]) = PositionOf(seq, out[k]) + 1

\* C2's case: a window cut off at the start of a sequence with a gap in its
\* ids, and ending at the current item
C2_Witness ==
    /\ oracle.called
    /\ oracle.file_sequence = <<1, 3>>
    /\ oracle.current_file_id = 3
    /\ oracle.Nr = 2
    /\ oracle.Nf = 0
    /\ oracle.cache_targets = <<1, 3>>

\* the item (under either kind of key) has an entry for cache type ty in map m
HasRecord(m, i, ty) == \E e \in m : ItemOf(e[1]) = i /\ e[2] = ty

(* C6: in every reachable ledger state each (item, cache type) pair has a  *)
(* record in at most one of in_progress, completed, failed; entering       *)
(* in_progress removes the pair's completed or failed record.              *)
C6_OneMapPerPair ==
    \A i \in Items, ty \in TypeSet :
        /\ ~(HasRecord(status.in_progress, i, ty) /\ HasRecord(status.completed, i, ty))
        /\ ~(HasRecord(status.in_progress, i, ty) /\ HasRecord(status.failed, i, ty))
        /\ ~(HasRecord(status.completed, i, ty) /\ HasRecord(status.failed, i, ty))

(* C10: every point lookup, of any cache type, adds one to exactly one of  *)
(* cache_hits and cache_misses: to cache_hits, returning the payload, when *)
(* the file is present and readable, and to cache_misses, returning        *)
(* "absent", otherwise.                                                    *)
C10_OneCounterPerLookup ==
    \A t \in Threads :
        pc[t] = "done" =>
            /\ loc[t].hits_added + loc[t].misses_added = 1
            /\ loc[t].result = "payload" => loc[t].hits_added = 1
            /\ loc[t].result = "absent" => loc[t].misses_added = 1

\* the state in which the lookup of thread t found its cache file
LookedUpFile(t) == loc[t].opened

(* C11: a point lookup on a cache file that exists and does not parse is a *)
(* cache miss: it returns "absent", adds one to cache_misses and nothing   *)
(* to cache_hits.                                                          *)
C11_CorruptFileIsAMiss ==
    \A t \in Threads :
        (/\ pc[t] = "done"
         /\ loc[t].op \in {"get_cached_segments", "get_cached_plots"}
         /\ LookedUpFile(t) = "corrupt")
        => /\ loc[t].result = "absent"
           /\ loc[t].misses_added = 1
           /\ loc[t].hits_added = 0

(* C12: no counter update of a point lookup is lost.  The manager starts   *)
(* with both counters at zero, so cache_hits + cache_misses is at least    *)
(* the number of get_cached_segments calls that have counted and not yet   *)
(* returned to their callers.                                              *)
C12_NoLostCounterUpdate ==
    status.cache_hits + status.cache_misses
        >= Cardinality({t \in Threads : /\ pc[t] = "done"
                                        /\ loc[t].op = "get_cached_segments"})

(* C13: write-through.  Whenever the ledger lock is free, the document     *)
(* that cache_status.json holds (the defaults when there is no file) is    *)
(* the in-memory document, keys compared as json writes them.              *)
C13_WriteThrough ==
    lock = Free => Dumped(LoadStatus(status_file)) = Dumped(status)

\* every file of the three cache directories
CacheFiles == TypeSet \X Items

\* position of a cache type in the order cleanup_cache walks the directories
DirIndex(ty) == CHOOSE k \in 1..Len(CacheDirs) : CacheDirs[k] = ty

\* cleanup_cache comes to file f before it comes to file g
CleanedBefore(f, g) ==
    \/ DirIndex(f[1]) < DirIndex(g[1])
    \/ f[1] = g[1] /\ f[2] < g[2]

(* C14: cleanup_cache removes the files whose modification time is before  *)
(* the cutoff (now minus max_cache_age_hours) and keeps the others: no     *)
(* file at or after the cutoff is ever removed, and when a call has run to *)
(* its end every file before the cutoff is gone, except those whose        *)
(* removal fails; such a failure is passed over and the call still runs to *)
(* its end.                                                                *)
C14_CleanupRemovesOldFilesOnly ==
    /\ \A f \in disk.removed :
           disk.mtime[f] < disk.now - config.max_cache_age_hours
    /\ \A t \in Threads :
           pc[t] = "cleanup_done" =>
               \A f \in CacheFiles :
                   (isfile(f) /\ disk.mtime[f] < loc[t].cutoff_time)
                   => f \in disk.undeletable

(* C14's case: a call at its end that has left a file it could not remove, *)
(* a newer file and a file exactly at the cutoff, and has removed an old   *)
(* file that comes after the one it could not remove.                      *)
C14_Witness ==
    \E t \in Threads :
        /\ pc[t] = "cleanup_done"
        /\ \E f \in disk.undeletable, g \in disk.removed :
               isfile(f) /\ CleanedBefore(f, g)
        /\ \E f \in CacheFiles : isfile(f) /\ disk.mtime[f] > loc[t].cutoff_time
        /\ \E f \in CacheFiles : isfile(f) /\ disk.mtime[f] = loc[t].cutoff_time

\* No step of cleanup_cache changes the ledger, in memory or on disk.
CleanupLeavesLedger ==
    [][(\E t \in Threads : loc[t].op = "cleanup_cache" /\ <<pc[t], loc[t]>> # <<pc'[t], loc'[t]>>)
       => (status' = status /\ status_file' = status_file /\ lock' = lock)]_vars

\* the cache type a lookup is for
LookupType(op) == IF op = "get_cached_segments" THEN "segments" ELSE "plots"

(* C15: after cleanup_cache has removed the cache file of a completed      *)
(* (item, cache type), is_cached is still true of the pair, and a lookup   *)
(* of it returns "absent" and adds one to cache_misses.                    *)
C15_LookupAfterCleanupIsAMiss ==
    \A t \in Threads :
        (/\ pc[t] = "done"
         /\ loc[t].op \in {"get_cached_segments", "get_cached_plots"}
         /\ <<LookupType(loc[t].op), loc[t].file_id>> \in disk.removed
         /\ loc[t].opened = "absent"
         /\ is_cached(status, loc[t].file_id, LookupType(loc[t].op)))
        => /\ loc[t].result = "absent"
           /\ loc[t].misses_added = 1

RECURSIVE SumOf(_)
\* the sum of a sequence of numbers
SumOf(ds) == IF ds = <<>> THEN 0 ELSE Head(ds) + SumOf(Tail(ds))

RECURSIVE AfterCompletions(_, _)
\* the document after mark_completed has updated it once for each duration of ds
AfterCompletions(s, ds) ==
    IF ds = <<>> THEN s
    ELSE AfterCompletions(CompletedMarked(s, 1, "segments", Head(ds)), Tail(ds))

\* the sequences of one to three durations out of 2, 4, 6
DurationSeqs == UNION {[1..n -> {2, 4, 6}] : n \in 1..3}

(* C16: mark_completed adds one to total_generated, giving n, and sets     *)
(* generation_time_avg to (avg * (n - 1) + d) / n; from the empty ledger   *)
(* the average after any sequence of completions is the arithmetic mean of *)
(* their durations (2, 4, 6 read 2, 3, 4); mark_failed and                 *)
(* mark_in_progress change neither value.                                  *)
C16_RunningAverageIsTheMean ==
    /\ AfterCompletions(DefaultStatus, <<2>>).generation_time_avg = <<2, 1>>
    /\ AfterCompletions(DefaultStatus, <<2, 4>>).generation_time_avg = <<3, 1>>
    /\ AfterCompletions(DefaultStatus, <<2, 4, 6>>).generation_time_avg = <<4, 1>>
    /\ \A ds \in DurationSeqs :
           LET s == AfterCompletions(DefaultStatus, ds)
           IN /\ s.total_generated = Len(ds)
              /\ s.generation_time_avg[1] * Len(ds)
                     = SumOf(ds) * s.generation_time_avg[2]
    /\ [][\A t \in Threads, i \in Items, ty \in TypeSet :
              /\ \A d \in Durations :
                     (loc'[t].op = "mark_completed" /\ mark_completed(t, i, ty, d)) =>
                         LET n == status.total_generated + 1
                             avg == status.generation_time_avg
                             new == status'.generation_time_avg
                         IN /\ status'.total_generated = n
                            /\ new[2] > 0
                            /\ new[1] * n * avg[2]
                                   = (avg[1] * (n - 1) + d * avg[2]) * new[2]
              /\ (/\ loc'[t].op \in {"mark_failed", "mark_in_progress"}
                  /\ (mark_failed(t, i, ty) \/ mark_in_progress(t, i, ty))) =>
                     /\ status'.total_generated = status.total_generated
                     /\ status'.generation_time_avg = status.generation_time_avg]_vars

(* C16's case: mark_completed with a duration of 4 on a ledger that held   *)
(* one completion of duration 2                                            *)
C16_Witness ==
    \E t \in Threads :
        /\ pc[t] = "persist"
        /\ loc[t].op = "mark_completed"
        /\ status.total_generated = 2
        /\ status.generation_time_avg = <<3, 1>>

(* C17: the generation queue holds no id more than once, whatever lists    *)
(* add_to_queue has been called with.                                      *)
C17_QueueHoldsNoIdTwice ==
    \A j, k \in 1..Len(status.generation_queue) :
        status.generation_queue[j] = status.generation_queue[k] => j = k

\* item i has an enabled cache type without a completed record
HasMissingType(i) ==
    \E ty \in TypeSet : TypeEnabled(config, ty) /\ ~HasRecord(status.completed, i, ty)

(* C18: _trigger_background_generation enqueues exactly the targets of the *)
(* window that have an enabled cache type not completed in the ledger: a   *)
(* target whose enabled types are all completed is not enqueued.           *)
C18_EnqueuesExactlyTheTargetsToGenerate ==
    \A t \in Threads :
        (pc[t] = "trigger_enqueue" \/ (pc[t] = "persist" /\ loc[t].op = "trigger"))
        => loc[t].targets = SelectSeq(loc[t].window, HasMissingType)

(* C19: CacheManager.update_current_file(id) sets current_file_id to id    *)
(* and, whatever enable_background_generation says, changes nothing else   *)
(* of the ledger, the status file or the executor.                         *)
C19_SetCurrentChangesOnlyCurrent ==
    [][\A t \in Threads, i \in Items :
           (loc'[t].op = "update_current_file" /\ update_current_file(t, i)) =>
               /\ status'.current_file_id = i
               /\ status' = [status EXCEPT !.current_file_id = i]
               /\ status_file' = status_file
               /\ pool' = pool]_vars

(* C19's case: the call made with background generation off on a ledger    *)
(* with a queued id                                                        *)
C19_Witness ==
    \E t \in Threads :
        /\ pc[t] = "persist"
        /\ loc[t].op = "update_current_file"
        /\ ~config.enable_background_generation
        /\ status.current_file_id = 2
        /\ status.generation_queue = <<1>>

(* C20: CacheManager.update_current_file(id) completes whatever the store  *)
(* returns as the sequence, an empty sequence or one without id included:  *)
(* the thread that has set current_file_id is able to go on and return.    *)
C20_SetCurrentCompletesOnStaleSequence ==
    \A t \in Threads :
        (pc[t] = "persist" /\ loc[t].op = "update_current_file")
        => /\ status.current_file_id # None
           /\ ENABLED save_status(t)


\* whether the keys lead to a value in the tree
RECURSIVE Resolves(_, _)
Resolves(tree, keys) ==
    \/ keys = <<>>
    \/ /\ IsDict(tree)
       /\ Head(keys) \in DOMAIN tree.items
       /\ Resolves(tree.items[Head(keys)], Tail(keys))

\* one key sequence is the beginning of the other
IsPrefix(p, q) == Len(p) <= Len(q) /\ SubSeq(q, 1, Len(p)) = p
Related(p, q) == IsPrefix(p, q) \/ IsPrefix(q, p)

\* C21: every set(p, v) returns; afterwards get(p, d) gives v whatever d is,
\* the paths that neither begin p nor continue it hold what they held, and
\* cache_config.json, where it can be written, holds the tree that is in
\* memory; a get of a path that does not resolve gives the default it was
\* called with.
C21_SetThenGetRoundTrip ==
    [][/\ \A p \in KeyPaths, v \in Values :
              call_set(p, v) =>
                  /\ ~conf'.raised
                  /\ \A d \in Defaults : get(conf'.config, split(p), d) = v
                  /\ \A q \in KeyPaths, d \in Defaults :
                         ~Related(split(p), split(q)) =>
                             get(conf'.config, split(q), d)
                                 = get(conf.config, split(q), d)
                  /\ conf.config_file.writable =>
                         /\ conf'.config_file.exists
                         /\ ~conf'.config_file.corrupt
                         /\ conf'.config_file.doc = conf'.config
       /\ \A p \in KeyPaths, d \in Defaults :
              (call_get(p, d) /\ ~Resolves(conf.config, split(p))) =>
                  conf'.result = d]_vars

\* the window get_cache_window reads is two integers within the bounds
WindowInBounds(tree) ==
    LET w == get_cache_window(tree)
    IN /\ w[1].kind = "int" /\ 0 <= w[1].value /\ w[1].value <= Nr_max
       /\ w[2].kind = "int" /\ 0 <= w[2].value /\ w[2].value <= Nf_max

\* C22: no request to the window endpoint or to the generic update endpoint
\* takes the stored window out of 0..50 for Nr and 0..100 for Nf, and a
\* window request answered with success: False leaves the window as it was.
C22_WindowStaysInBounds ==
    [][conf'.op \in {"update_config", "update_cache_window"} =>
          /\ WindowInBounds(conf.config) => WindowInBounds(conf'.config)
          /\ (conf'.op = "update_cache_window" /\ ~conf'.success) =>
                 get_cache_window(conf'.config) = get_cache_window(conf.config)]_vars


\* the key sequences that lead to a value in the tree, and that value
RECURSIVE PathsOf(_)
PathsOf(tree) ==
    IF ~IsDict(tree) THEN {<<>>}
    ELSE {<<>>} \cup UNION {{<<k>> \o p : p \in PathsOf(tree.items[k])} :
                               k \in DOMAIN tree.items}

RECURSIVE At(_, _)
At(tree, keys) ==
    IF keys = <<>> THEN tree ELSE At(tree.items[Head(keys)], Tail(keys))

\* the override holds a leaf somewhere on the way to the keys
LeafAbove(override, keys) ==
    \E n \in 1..(Len(keys) - 1) :
        /\ Resolves(override, SubSeq(keys, 1, n))
        /\ ~IsDict(At(override, SubSeq(keys, 1, n)))

C24_NeighboursAreAdjacent ==
    oracle.op \in {"get_next_file", "get_previous_file"} =>
        LET seq == oracle.file_sequence
            id == oracle.current_file_id
            present == \E p \in 1..Len(seq) : seq[p] = id
            step == IF oracle.op = "get_next_file" THEN 1 ELSE 0 - 1
        IN /\ ~present => oracle.neighbour = None
           /\ present =>
                  LET i == PositionOf(seq, id)
                  IN /\ (i + step) \in 1..Len(seq) => oracle.neighbour = seq[i + step]
                     /\ (i + step) \notin 1..Len(seq) => oracle.neighbour = None

\* the item after 1 in [1, 3] is 3, which has no item after it
C24_Witness ==
    /\ oracle.op = "get_next_file"
    /\ oracle.file_sequence = <<1, 3>>
    /\ oracle.current_file_id = 3
    /\ oracle.neighbour = None


\* C25: once the manager is constructed and started, and before any call is
\* made on it, so while no task is generating anything, the ledger holds no
\* in_progress record: one read from cache_status.json has been cleared.
C25_NoInProgressRecordAfterStartup ==
    (\A t \in Threads : pc[t] = "idle" /\ loc[t].op = "none") =>
        status.in_progress = {}


\* C29: a failed record stays in the failed map in every step (the code
\* never removes one, a new attempt included), and nothing retries by
\* itself: a pair with a failed record gets an in_progress record only in
\* the step of a mark_in_progress call for it, and its item enters the queue
\* only in the step of an add_to_queue call.
C29_FailedStaysAndNothingRetries ==
    [][/\ status.failed \subseteq status'.failed
       /\ \A i \in Items, ty \in TypeSet :
              (/\ HasRecord(status.failed, i, ty)
               /\ <<IntKey(i), ty>> \in status'.in_progress \ status.in_progress)
              => \E t \in Threads :
                     /\ pc[t] = "idle"
                     /\ loc'[t].op = "mark_in_progress"
                     /\ mark_in_progress(t, i, ty)
       /\ \A i \in Items :
              (/\ \E ty \in TypeSet : HasRecord(status.failed, i, ty)
               /\ \A k \in 1..Len(status.generation_queue) :
                      status.generation_queue[k] # i
               /\ \E k \in 1..Len(status'.generation_queue) :
                      status'.generation_queue[k] = i)
              => \E t \in Threads :
                     pc[t] = "idle" /\ loc'[t].op = "add_to_queue"]_vars

\* C29's case: the ledger was loaded with a failed record for (1, segments),
\* a call that marks another pair failed has acted, and the record is there
C29_Witness ==
    \E t \in Threads :
        /\ pc[t] = "persist"
        /\ loc[t].op = "mark_failed"
        /\ <<IntKey(2), "plots">> \in status.failed
        /\ <<StrKey(1), "segments">> \in status.failed


\* the records of a ledger map that belong to other pairs than (i, ty)
OtherPairs(m, i, ty) == {e \in m : ~(ItemOf(e[1]) = i /\ e[2] = ty)}

\* C30: after mark_completed(id, type, d) or mark_failed(id, type, e) the
\* pair has no in_progress record, and the in_progress records of every
\* other pair are the ones there were before.
C30_MarkClearsThePairsInProgress ==
    [][\A t \in Threads, i \in Items, ty \in TypeSet :
           (/\ loc'[t].op \in {"mark_completed", "mark_failed"}
            /\ \/ \E d \in Durations : mark_completed(t, i, ty, d)
               \/ mark_failed(t, i, ty))
           => /\ ~HasRecord(status'.in_progress, i, ty)
              /\ OtherPairs(status'.in_progress, i, ty)
                     = OtherPairs(status.in_progress, i, ty)]_vars


\* no generation task is pending or running: the executor never holds one,
\* and no trigger call is on its way to submit one
NoTaskLeft == \A t \in Threads : loc[t].op # "trigger"

C34_SetCurrentAfterStopReturns ==
    [][\A t \in Threads, i \in Items :
           (/\ pool.shutdown
            /\ loc'[t].op = "update_current_file"
            /\ update_current_file(t, i))
           => /\ status'.generation_queue = status.generation_queue
              /\ ~(pc'[t] = "persist" /\ lock' = t)]_vars

\* C35: writing the ledger to cache_status.json and loading a fresh ledger
\* from that file leaves the answer of is_cached the same for every item and
\* cache type.
C35_IsCachedSurvivesReload ==
    LET reloaded == LoadStatus([exists |-> TRUE, corrupt |-> FALSE,
                                doc |-> Dumped(status)])
    IN \A i \in Items, ty \in TypeSet :
           is_cached(reloaded, i, ty) = is_cached(status, i, ty)


\* C37: the window a trigger computes its targets with is a window the
\* configuration has held as a whole: the one stored before a window request
\* or the one stored after it, never Nr of the one and Nf of the other.
C37_TriggerSeesAWholeWindow ==
    \A t \in Threads :
        (pc[t] = "trigger_targets" /\ loc[t].op = "trigger")
        => <<Leaf("int", loc[t].Nr), Leaf("int", loc[t].Nf)>> \in conf.windows


\* C38: get_cache_manager() builds at most one CacheManager in the process,
\* however its first calls fall, and every call returns that instance.
C38_OneManagerPerProcess ==
    /\ Cardinality(cache_manager.made) <= 1
    /\ Cardinality(cache_manager.returned) <= 1

====
